---- MODULE Spec2Model ----
(***************************************************************************)
(* A model of Happysearch's Pokemon GO event tracker (src/Happysearch.py): *)
(* the feed aggregation run PokemonGoEvents.events() and the pure helpers  *)
(* it is built from (_clean_html, _category_for_title, _normalize_date,    *)
(* _read_feed, fallback_posts).                                            *)
(*                                                                         *)
(* Python strings are TLA+ strings; a character is a string of length 1.   *)
(* TLA+ strings are ASCII, so the one non-ASCII character the program uses *)
(* (U+2026, the ellipsis of a truncated summary) is written "~"; no input  *)
(* of the model contains "~", and Ord gives it its real code point.        *)
(***************************************************************************)
EXTENDS Integers, Sequences, FiniteSets, TLC

VARIABLES
    pc,         \* where the call under way stands
    idx,        \* events(): index in FEEDS of the source fetched next
    responses,  \* what the network answered to each fetch of this run
    collected,  \* events(): local list `collected`
    errors,     \* events(): local list `errors`
    unique,     \* events(): local dict `unique`, in insertion order
    at,         \* events(): index in `collected` of the post the dedup loop takes next
    ordered,    \* events(): local list `ordered`
    result,     \* what events() returned (or that it raised)
    arg,        \* argument of the helper called on its own
    ret,        \* what that helper returned (or that it raised)
    calls       \* the call of events() of each handler thread of the server

vars == <<pc, idx, responses, collected, errors, unique, at, ordered, result, arg, ret, calls>>

-----------------------------------------------------------------------------
(* Strings *)

Char(s, i) == SubSeq(s, i, i)

Drop(s, n) == SubSeq(s, n + 1, Len(s))

Take(s, n) == SubSeq(s, 1, n)

\* c is one of the characters of s
Contains1(s, c) == \E i \in 1..Len(s) : Char(s, i) = c

\* Printable ASCII in code-point order, as <<first code point, characters>>
\* runs (the double quote, the backslash and the backquote are left out).
AsciiRuns == <<
    <<32, " !">>,
    <<35, "#$%&'()*+,-./0123456789:;<=>?@ABCDEFGHIJKLMNOPQRSTUVWXYZ[">>,
    <<93, "]^_">>,
    <<97, "abcdefghijklmnopqrstuvwxyz{|}">> >>

Ellipsis == "~"

IndexIn(s, c) == CHOOSE i \in 1..Len(s) : Char(s, i) = c

\* The characters of the model's strings.
Characters ==
    {Ellipsis, "\t", "\n"} \cup
    UNION {{Char(AsciiRuns[r][2], i) : i \in 1..Len(AsciiRuns[r][2])} : r \in 1..Len(AsciiRuns)}

\* The code point of each character.
CodePoint ==
    [c \in Characters |->
        IF c = Ellipsis THEN 8230
        ELSE IF c = "\t" THEN 9
        ELSE IF c = "\n" THEN 10
        ELSE LET r == CHOOSE k \in 1..Len(AsciiRuns) : Contains1(AsciiRuns[k][2], c)
             IN  AsciiRuns[r][1] + IndexIn(AsciiRuns[r][2], c) - 1]

\* ord(c)
Ord(c) == CodePoint[c]

\* Python's a < b on str, lexicographic by code point: after a common
\* prefix of i - 1 characters, a ends and b goes on, or a's i-th character
\* is below b's.
StrLess(a, b) ==
    \E i \in 1..Len(b) :
        /\ Len(a) >= i - 1
        /\ Take(a, i - 1) = Take(b, i - 1)
        /\ \/ Len(a) = i - 1
           \/ Ord(Char(a, i)) < Ord(Char(b, i))

UpperLetters == "ABCDEFGHIJKLMNOPQRSTUVWXYZ"
LowerLetters == "abcdefghijklmnopqrstuvwxyz"

LowerChar(c) ==
    IF Contains1(UpperLetters, c) THEN Char(LowerLetters, IndexIn(UpperLetters, c)) ELSE c

\* str.lower()
RECURSIVE Lower(_)
Lower(s) == IF s = "" THEN "" ELSE LowerChar(Char(s, 1)) \o Lower(Drop(s, 1))

\* needle in hay
Contains(hay, needle) ==
    \E i \in 0..(Len(hay) - Len(needle)) : SubSeq(hay, i + 1, i + Len(needle)) = needle

\* \s of re, and the characters str.strip() removes
IsSpace(c) == c \in {" ", "\t", "\n"}

RECURSIVE LStrip(_)
LStrip(s) == IF s # "" /\ IsSpace(Char(s, 1)) THEN LStrip(Drop(s, 1)) ELSE s

RECURSIVE RStrip(_)
RStrip(s) == IF s # "" /\ IsSpace(Char(s, Len(s))) THEN RStrip(Take(s, Len(s) - 1)) ELSE s

\* str.strip()
Strip(s) == RStrip(LStrip(s))

\* An optional text: <<>> is Python's None, <<s>> the string s.
None == <<>>

Some(s) == <<s>>

\* `x or default`: None and "" are falsy
OrElse(x, default) == IF x = None THEN default ELSE IF x[1] = "" THEN default ELSE x[1]

\* What a call gives: a value returned, or an exception raised.
Returned(v) == [raised |-> FALSE, val |-> v]

Raised(cls, msg) == [raised |-> TRUE, cls |-> cls, msg |-> msg]

-----------------------------------------------------------------------------
(* _clean_html *)

Lowest(S) == CHOOSE x \in S : \A y \in S : x <= y

\* Where a match of <[^>]+> can start: a "<", then at least one character
\* other than ">", then a ">" somewhere after.
TagStarts(s) ==
    {i \in 1..(Len(s) - 2) :
        /\ Char(s, i) = "<"
        /\ Char(s, i + 1) # ">"
        /\ \E j \in (i + 2)..Len(s) : Char(s, j) = ">"}

\* Where the match starting at i ends: the first ">" from i + 2 on.
TagEnd(s, i) == Lowest({j \in (i + 2)..Len(s) : Char(s, j) = ">"})

\* re.sub(r"<[^>]+>", "", s): the leftmost match is dropped and the scan
\* resumes after it.
RECURSIVE StripTags(_)
StripTags(s) ==
    IF TagStarts(s) = {} THEN s
    ELSE Take(s, Lowest(TagStarts(s)) - 1) \o StripTags(Drop(s, TagEnd(s, Lowest(TagStarts(s)))))

Spaces(s) == {i \in 1..Len(s) : IsSpace(Char(s, i))}

\* re.sub(r"\s+", " ", s): the leftmost run of white space becomes one
\* space and the scan resumes after it.
RECURSIVE CollapseSpace(_)
CollapseSpace(s) ==
    IF Spaces(s) = {} THEN s
    ELSE Take(s, Lowest(Spaces(s)) - 1) \o " "
            \o CollapseSpace(LStrip(Drop(s, Lowest(Spaces(s)))))

clean_html(text) == Strip(CollapseSpace(StripTags(OrElse(text, ""))))

-----------------------------------------------------------------------------
(* _category_for_title *)

\* The dict EVENT_KEYWORDS in insertion order: <<keyword, category>>.
EVENT_KEYWORDS == <<
    <<"Raid", "Raid">>,
    <<"Spotlight", "Spotlight Hour">>,
    <<"Community Day", "Community Day">>,
    <<"Max Monday", "Max Monday">>,
    <<"Research", "Research">>,
    <<"GO Battle", "GO Battle League">>,
    <<"Season", "Season">>,
    <<"Showcase", "Showcase">>,
    <<"Incense", "Incense">>,
    <<"Egg", "Egg">> >>

\* (mutant) the keywords are looked for in their own case
RECURSIVE CategoryFromExact(_, _)
CategoryFromExact(i, title) ==
    IF i > Len(EVENT_KEYWORDS) THEN "News"
    ELSE IF Contains(title, EVENT_KEYWORDS[i][1]) THEN EVENT_KEYWORDS[i][2]
    ELSE CategoryFromExact(i + 1, title)

\* The loop over EVENT_KEYWORDS.items() from its i-th entry on.
RECURSIVE CategoryFrom(_, _)
CategoryFrom(i, title) ==
    IF i > Len(EVENT_KEYWORDS) THEN "News"
    ELSE IF Contains(Lower(title), Lower(EVENT_KEYWORDS[i][1])) THEN EVENT_KEYWORDS[i][2]
    ELSE CategoryFrom(i + 1, title)

category_for_title(title) == CategoryFrom(1, title)

-----------------------------------------------------------------------------
(* _normalize_date *)

Digits == "0123456789"

IsDigit(c) == Contains1(Digits, c)

AllDigits(s) == \A i \in 1..Len(s) : IsDigit(Char(s, i))

\* int(s) of a string of digits
RECURSIVE ToInt(_)
ToInt(s) ==
    IF s = "" THEN 0
    ELSE 10 * ToInt(Take(s, Len(s) - 1)) + (IndexIn(Digits, Char(s, Len(s))) - 1)

\* str(n), n >= 0
RECURSIVE ToStr(_)
ToStr(n) ==
    IF n < 10 THEN Char(Digits, n + 1)
    ELSE ToStr(n \div 10) \o Char(Digits, (n % 10) + 1)

\* %m, %d, %H, %M: two digits
Pad2(n) == IF n < 10 THEN "0" \o ToStr(n) ELSE ToStr(n)

MonthNames == <<"jan", "feb", "mar", "apr", "may", "jun",
                "jul", "aug", "sep", "oct", "nov", "dec">>

IsLeap(y) == (y % 4 = 0 /\ y % 100 # 0) \/ y % 400 = 0

DaysInMonth(y, m) ==
    IF m = 2 THEN (IF IsLeap(y) THEN 29 ELSE 28)
    ELSE IF m \in {4, 6, 9, 11} THEN 30 ELSE 31

\* The exception classes `except Exception` catches, among those raised here.
ExceptionClasses == {"ValueError", "TypeError", "OverflowError",
                     "URLError", "HTTPError", "TimeoutError", "ParseError"}

\* (mutant) only the errors of urllib are caught
IsURLError(cls) == cls \in {"URLError", "HTTPError", "TimeoutError"}

\* isinstance(error, Exception)
IsException(cls) == cls \in ExceptionClasses

\* A date of the shape DD Mon YYYY HH:MM:SS +ZZZZ (26 characters).
IsDateShape(b) ==
    /\ Len(b) = 26
    /\ AllDigits(SubSeq(b, 1, 2)) /\ Char(b, 3) = " "
    /\ Char(b, 7) = " "
    /\ AllDigits(SubSeq(b, 8, 11)) /\ Char(b, 12) = " "
    /\ AllDigits(SubSeq(b, 13, 14)) /\ Char(b, 15) = ":"
    /\ AllDigits(SubSeq(b, 16, 17)) /\ Char(b, 18) = ":"
    /\ AllDigits(SubSeq(b, 19, 20)) /\ Char(b, 21) = " "
    /\ Char(b, 22) \in {"+", "-"}
    /\ AllDigits(SubSeq(b, 23, 26))

\* datetime(year, month, day, hh, mi, ss, tzinfo=timezone(offset)): ValueError
\* for a day the month has not, an hour, minute or second out of range, or an
\* offset of a day or more; the zone -0000 gives a naive datetime.
MakeDatetime(year, month, day, hh, mi, ss, sign, off) ==
    IF \/ day < 1 \/ day > DaysInMonth(year, month)
       \/ hh > 23 \/ mi > 59 \/ ss > 59
    THEN Raised("ValueError", "out of range")
    ELSE IF off >= 1440
    THEN Raised("ValueError", "offset must be a timedelta strictly between")
    ELSE Returned([year |-> year, month |-> month, day |-> day,
                   hour |-> hh, minute |-> mi,
                   tzinfo |-> IF off = 0 /\ sign = -1 THEN None ELSE <<sign * off>>])

\* A year below 100 is a two-digit year.
FullYear(yy) == IF yy >= 100 THEN yy ELSE IF yy > 68 THEN yy + 1900 ELSE yy + 2000

\* The zone's +HHMM as minutes.
ZoneMinutes(zone) == (zone \div 100) * 60 + (zone % 100)

ParseShaped(b, mon) ==
    IF \A m \in 1..12 : MonthNames[m] # mon
    THEN Raised("ValueError", "Invalid date value or format")
    ELSE MakeDatetime(FullYear(ToInt(SubSeq(b, 8, 11))),
                      CHOOSE m \in 1..12 : MonthNames[m] = mon,
                      ToInt(SubSeq(b, 1, 2)),
                      ToInt(SubSeq(b, 13, 14)),
                      ToInt(SubSeq(b, 16, 17)),
                      ToInt(SubSeq(b, 19, 20)),
                      IF Char(b, 22) = "-" THEN -1 ELSE 1,
                      ZoneMinutes(ToInt(SubSeq(b, 23, 26))))

ParseBody(b) ==
    IF ~IsDateShape(b) THEN Raised("ValueError", "Invalid date value or format")
    ELSE ParseShaped(b, Lower(SubSeq(b, 4, 6)))

\* email.utils.parsedate_to_datetime on the strings the model feeds it: an
\* RFC 2822 date "[Www, ]DD Mon YYYY HH:MM:SS +ZZZZ" gives a datetime,
\* anything else raises ValueError.
parsedate_to_datetime(value) ==
    ParseBody(IF Len(value) = 31 /\ SubSeq(value, 4, 5) = ", " THEN Drop(value, 5) ELSE value)

\* The day before / after a date.
DayBefore(y, m, d) ==
    IF d > 1 THEN [year |-> y, month |-> m, day |-> d - 1]
    ELSE IF m > 1 THEN [year |-> y, month |-> m - 1, day |-> DaysInMonth(y, m - 1)]
    ELSE [year |-> y - 1, month |-> 12, day |-> 31]

DayAfter(y, m, d) ==
    IF d < DaysInMonth(y, m) THEN [year |-> y, month |-> m, day |-> d + 1]
    ELSE IF m < 12 THEN [year |-> y, month |-> m + 1, day |-> 1]
    ELSE [year |-> y + 1, month |-> 1, day |-> 1]

ShiftedDate(dt, total) ==
    IF total < 0 THEN DayBefore(dt.year, dt.month, dt.day)
    ELSE IF total >= 1440 THEN DayAfter(dt.year, dt.month, dt.day)
    ELSE [year |-> dt.year, month |-> dt.month, day |-> dt.day]

AtUtc(date, total) ==
    IF date.year < 1 \/ date.year > 9999
    THEN Raised("OverflowError", "date value out of range")
    ELSE Returned([year |-> date.year, month |-> date.month, day |-> date.day,
                   hour |-> (total % 1440) \div 60, minute |-> total % 60,
                   tzinfo |-> <<0>>])

\* Minutes since the local midnight of dt, taken to UTC.
UtcMinutes(dt) == dt.hour * 60 + dt.minute - dt.tzinfo[1]

\* dt.astimezone(timezone.utc) of an aware datetime (tzinfo = <<minutes>>);
\* datetime has the years 1..9999 and raises OverflowError outside them.
astimezone_utc(dt) == AtUtc(ShiftedDate(dt, UtcMinutes(dt)), UtcMinutes(dt))

\* dt.strftime("%Y-%m-%d"); %Y is the year's digits, not padded
strftime_date(dt) == ToStr(dt.year) \o "-" \o Pad2(dt.month) \o "-" \o Pad2(dt.day)

\* (mutant) the seconds are printed too
strftime_seconds(dt) ==
    strftime_date(dt) \o " " \o Pad2(dt.hour) \o ":" \o Pad2(dt.minute) \o ":00 UTC"

\* dt.strftime("%Y-%m-%d %H:%M UTC")
strftime_minute(dt) ==
    strftime_date(dt) \o " " \o Pad2(dt.hour) \o ":" \o Pad2(dt.minute) \o " UTC"

\* if dt.tzinfo is None: dt = dt.replace(tzinfo=timezone.utc)
AssumeUtc(dt) == IF dt.tzinfo = None THEN [dt EXCEPT !.tzinfo = <<0>>] ELSE dt

FormatUtc(utc) == IF utc.raised THEN utc ELSE Returned(strftime_minute(utc.val))

ConvertParsed(parsed) ==
    IF parsed.raised THEN parsed ELSE FormatUtc(astimezone_utc(AssumeUtc(parsed.val)))

\* The try block of _normalize_date.
NormalizeTry(value) == ConvertParsed(parsedate_to_datetime(value))

\* (mutant) except Exception: return "Unknown"
NormalizeExceptUnknown(value, try) ==
    IF try.raised /\ IsException(try.cls) THEN Returned("Unknown") ELSE try

\* except Exception: return value
NormalizeExcept(value, try) ==
    IF try.raised /\ IsException(try.cls) THEN Returned(value) ELSE try

normalize_date(value) ==
    IF value = "" THEN Returned("Unknown") ELSE NormalizeExcept(value, NormalizeTry(value))

-----------------------------------------------------------------------------
(* _read_feed *)

SummaryCap == 230

FeedCap == 25

Min(a, b) == IF a < b THEN a ELSE b

\* seq[:n]
Prefix(seq, n) == SubSeq(seq, 1, Min(n, Len(seq)))

\* An <item> element: each child is None when the element is missing and
\* its text otherwise (findtext gives "" for an element without text).
Item(t, l, d, p) == [title |-> t, link |-> l, description |-> d, pubDate |-> p]

EventPost(t, u, s, src, p, c) ==
    [title |-> t, url |-> u, summary |-> s, source |-> src, published_at |-> p, category |-> c]

\* (mutant) >= instead of >
TruncateFromCap(summary) ==
    IF Len(summary) >= SummaryCap THEN Prefix(summary, SummaryCap) \o Ellipsis ELSE summary

\* summary[:230] + U+2026 if len(summary) > 230 else summary
Truncate(summary) ==
    IF Len(summary) > SummaryCap THEN Prefix(summary, SummaryCap) \o Ellipsis ELSE summary

\* summary or "Open to see full event details."
SummaryOrDefault(summary) ==
    IF summary = "" THEN "Open to see full event details." ELSE summary

\* The summary stored for an item's description.
StoredSummary(description) ==
    SummaryOrDefault(Truncate(clean_html(Some(OrElse(description, "")))))

MakePost(title, link, summary, source_name, published_at) ==
    IF published_at.raised THEN published_at
    ELSE Returned(EventPost(title, link, summary, source_name,
                            published_at.val, category_for_title(title)))

\* The body of the loop over the feed's items.
ParseItem(source_name, item) ==
    MakePost(Strip(OrElse(item.title, "Untitled Event")),
             Strip(OrElse(item.link, "")),
             StoredSummary(item.description),
             source_name,
             normalize_date(Strip(OrElse(item.pubDate, ""))))

\* The posts of the items parsed, or the first exception one of them raised.
Gather(parsed) ==
    IF \E i \in DOMAIN parsed : parsed[i].raised
    THEN parsed[CHOOSE i \in DOMAIN parsed :
                    parsed[i].raised /\ \A j \in 1..(i - 1) : ~parsed[j].raised]
    ELSE Returned([i \in DOMAIN parsed |-> parsed[i].val])

ParseItems(source_name, items) ==
    Gather([i \in 1..Len(items) |-> ParseItem(source_name, items[i])])

\* (mutant) every item of the feed is kept
read_feed_uncapped(source_name, response) ==
    IF response.raised THEN response
    ELSE ParseItems(source_name, response.val)

\* _read_feed(source_name, url), given what the network answers for url:
\* Raised(...) when urlopen or ElementTree.fromstring raises, Returned(items)
\* with the feed's <item> elements in document order otherwise.
read_feed(source_name, response) ==
    IF response.raised THEN response
    ELSE ParseItems(source_name, Prefix(response.val, FeedCap))

-----------------------------------------------------------------------------
(* events *)

FEEDS == <<
    <<"Pokemon GO Live", "https://pokemongolive.com/news/rss">>,
    <<"Pokemon GO Live (EN)", "https://pokemongolive.com/en/news/rss">>,
    <<"Pokemon GO Blog", "https://pokemongohub.net/feed/">> >>

\* datetime.now(tz=timezone.utc)
Datetime(y, m, d, hh, mi) ==
    [year |-> y, month |-> m, day |-> d, hour |-> hh, minute |-> mi, tzinfo |-> <<0>>]

\* (mutant) source and category the wrong way round
fallback_posts_swapped(now) ==
    << EventPost("Daily feed refresh pending", "https://pokemongolive.com/",
                 "Could not reach live Pokemon GO feeds right now.",
                 "Status", strftime_date(now) \o " 00:00 UTC", "System") >>

fallback_posts(now) ==
    << EventPost("Daily feed refresh pending",
                 "https://pokemongolive.com/",
                 "Could not reach live Pokemon GO feeds right now. The tracker will retry automatically "
                    \o "on every page load so fresh event posts appear as soon as sources are reachable.",
                 "System",
                 strftime_date(now) \o " 00:00 UTC",
                 "Status") >>

\* key = f"{post.title}|{post.url}"
DedupKey(post) == post.title \o "|" \o post.url

\* (mutant) a list instead of a dict: every post is kept
DictSetAppend(dict, key, post) == Append(dict, <<key, post>>)

\* unique[key] = post on a dict kept as its <<key, post>> entries in
\* insertion order: a key already there keeps its place and gets the post.
DictSet(dict, key, post) ==
    IF \E i \in 1..Len(dict) : dict[i][1] = key
    THEN [i \in 1..Len(dict) |-> IF dict[i][1] = key THEN <<key, post>> ELSE dict[i]]
    ELSE Append(dict, <<key, post>>)

\* unique.values()
DictValues(dict) == [i \in 1..Len(dict) |-> dict[i][2]]

sort_key(post) == post.published_at

\* (mutant) reverse=True forgotten: ascending order
ComesBeforeAscending(posts, i, j) ==
    \/ StrLess(posts[i].published_at, posts[j].published_at)
    \/ posts[i].published_at = posts[j].published_at /\ i < j

\* Whether posts[i] stands before posts[j] once sorted by sort_key with
\* reverse=True: its key is the greater one, or the keys are equal and it
\* stood before (the sort is stable).
ComesBefore(posts, i, j) ==
    \/ StrLess(sort_key(posts[j]), sort_key(posts[i]))
    \/ sort_key(posts[i]) = sort_key(posts[j]) /\ i < j

\* How many posts stand before posts[i] once sorted, for each i.
Rank(posts) ==
    [i \in 1..Len(posts) |-> Cardinality({j \in 1..Len(posts) : ComesBefore(posts, j, i)})]

\* The posts, each at the place its rank gives it.
SortedBy(posts, rank) ==
    [k \in 1..Len(posts) |-> posts[CHOOSE i \in 1..Len(posts) : rank[i] = k - 1]]

\* sorted(posts, key=sort_key, reverse=True)
SortedDescending(posts) == SortedBy(posts, Rank(posts))

-----------------------------------------------------------------------------
(* What the network and the clock may give *)

MaxItems == 2

ItemRaid ==
    Item(Some("Raid Hour"), Some("https://pokemongolive.com/raid"),
         Some("<p>Raid  Hour <b>this week</b></p>"), Some("Wed, 02 Oct 2024 10:00:00 +0000"))

\* the same post as ItemRaid, republished with other text and another date
ItemRaidAgain ==
    Item(Some(" Raid Hour\n"), Some(" https://pokemongolive.com/raid "),
         Some("Updated"), Some("03 Oct 2024 01:30:00 +0200"))

ItemBlank == Item(Some("   "), None, None, Some("not-a-date"))

ItemBare == Item(None, None, None, None)

ItemBarA == Item(Some("a|b"), Some("c"), Some("first"), Some("  "))

ItemBarB == Item(Some("a"), Some("b|c"), Some(""), Some("31 Dec 2024 23:30:00 -0100"))

\* The items the feed of the i-th source may hold.
FeedItems(i) ==
    IF i = 1 THEN {ItemRaid, ItemBarA}
    ELSE IF i = 2 THEN {ItemRaidAgain, ItemBarB}
    ELSE {ItemBlank, ItemBare}

SeqsUpTo(S, n) == UNION {[1..k -> S] : k \in 0..n}

\* urlopen fails, times out or answers an error status; fromstring rejects
\* the payload
Failures == {
    Raised("URLError", "<urlopen error timed out>"),
    Raised("HTTPError", "HTTP Error 404: Not Found"),
    Raised("ParseError", "syntax error: line 1, column 0") }

\* What fetching and parsing the feed of the i-th source may give.
Answers(i) == Failures \cup {Returned(items) : items \in SeqsUpTo(FeedItems(i), MaxItems)}

\* _read_feed is a function of the source and of what the network answers:
\* its value for each answer, worked out once.
ReadFeedOf ==
    [i \in 1..Len(FEEDS) |-> [response \in Answers(i) |-> read_feed(FEEDS[i][1], response)]]

Clocks == {Datetime(2024, 10, 2, 23, 59), Datetime(2025, 1, 1, 0, 0)}

ElapsedValues == {0, 24000}

NoResult == [raised |-> FALSE, val |-> None]

MaxThreads == 2

\* The handler threads of ThreadingHTTPServer: one per request under way.
Threads == 1..MaxThreads

\* A thread that has not called events(): pc, idx, at, responses, ordered
\* and result as for the single run; collected, errors and unique are the
\* locals of its call; met is the set of the calls that were under way when
\* this one started.
NoCall ==
    [pc |-> "idle", idx |-> 1, responses |-> <<>>, at |-> 1, ordered |-> <<>>,
     result |-> NoResult, collected |-> <<>>, errors |-> <<>>, unique |-> <<>>, met |-> {}]

NoCalls == [t \in Threads |-> NoCall]

-----------------------------------------------------------------------------
(* The run of events() *)

Init ==
    /\ pc = "idle"
    /\ idx = 1
    /\ responses = <<>>
    /\ collected = <<>>
    /\ errors = <<>>
    /\ unique = <<>>
    /\ at = 1
    /\ ordered = <<>>
    /\ result = NoResult
    /\ arg = None
    /\ ret = NoResult
    /\ calls = NoCalls

\* do_GET calls self.tracker.events(): a run starts with fresh locals.
Call ==
    /\ pc \in {"idle", "done"}
    /\ pc' = "fetch"
    /\ idx' = 1
    /\ responses' = <<>>
    /\ collected' = <<>>
    /\ errors' = <<>>
    /\ unique' = <<>>
    /\ at' = 1
    /\ ordered' = <<>>
    /\ result' = NoResult
    /\ UNCHANGED <<arg, ret, calls>>

\* (mutant) the error is recorded without the name of its source
ExceptClauseNoSource(source, error) ==
    IF IsException(error.cls) THEN Returned(Append(errors, error.msg)) ELSE error

\* except Exception as error: errors.append(f"{source}: {error}")
ExceptClause(source, error) ==
    IF IsException(error.cls)
    THEN Returned(Append(errors, source \o ": " \o error.msg))
    ELSE error

\* (mutant) the loop is left at the first source that fails
TryExtendBreak(source, posts, caught) ==
    IF ~posts.raised
    THEN /\ collected' = collected \o posts.val
         /\ UNCHANGED <<errors, result>>
         /\ pc' = IF idx = Len(FEEDS) THEN "fallback" ELSE "fetch"
    ELSE /\ errors' = caught.val
         /\ UNCHANGED <<collected, result>>
         /\ pc' = "fallback"

\* try: collected.extend(posts) / except ...: with posts what _read_feed gave
TryExtend(source, posts, caught) ==
    IF ~posts.raised
    THEN /\ collected' = collected \o posts.val
         /\ UNCHANGED <<errors, result>>
         /\ pc' = IF idx = Len(FEEDS) THEN "fallback" ELSE "fetch"
    ELSE IF ~caught.raised
    THEN /\ errors' = caught.val
         /\ UNCHANGED <<collected, result>>
         /\ pc' = IF idx = Len(FEEDS) THEN "fallback" ELSE "fetch"
    ELSE /\ result' = caught
         /\ UNCHANGED <<collected, errors>>
         /\ pc' = "raised"

TryReadFeed(source, posts) ==
    TryExtend(source, posts, IF posts.raised THEN ExceptClause(source, posts) ELSE posts)

\* One turn of the loop over FEEDS.
Fetch ==
    /\ pc = "fetch"
    /\ \E response \in Answers(idx) :
        /\ responses' = Append(responses, response)
        /\ TryReadFeed(FEEDS[idx][1], ReadFeedOf[idx][response])
    /\ idx' = idx + 1
    /\ UNCHANGED <<unique, at, ordered, arg, ret, calls>>

\* if not collected: collected = self.fallback_posts()
Fallback ==
    /\ pc = "fallback"
    /\ \E now \in Clocks :
        collected' = IF collected = <<>> THEN fallback_posts(now) ELSE collected
    /\ pc' = IF collected' = <<>> THEN "sort" ELSE "dedup"
    /\ UNCHANGED <<idx, responses, errors, unique, at, ordered, result, arg, ret, calls>>

\* One turn of the loop `for post in collected: unique[key] = post`.
Dedup ==
    /\ pc = "dedup"
    /\ unique' = DictSet(unique, DedupKey(collected[at]), collected[at])
    /\ at' = at + 1
    /\ pc' = IF at = Len(collected) THEN "sort" ELSE "dedup"
    /\ UNCHANGED <<idx, responses, collected, errors, ordered, result, arg, ret, calls>>

Sort ==
    /\ pc = "sort"
    /\ \E values \in {DictValues(unique)} :
        \E rank \in {Rank(values)} : ordered' = SortedBy(values, rank)
    /\ pc' = "return"
    /\ UNCHANGED <<idx, responses, collected, errors, unique, at, result, arg, ret, calls>>

Envelope(now, elapsed_ms) ==
    [generated_at |-> strftime_minute(now),
     refresh_note |-> "Auto-refreshes every day and can be manually refreshed anytime.",
     elapsed_ms   |-> elapsed_ms,
     errors       |-> errors,
     events       |-> ordered]

Return ==
    /\ pc = "return"
    /\ \E now \in Clocks, elapsed_ms \in ElapsedValues :
        result' = Returned(Envelope(now, elapsed_ms))
    /\ pc' = "done"
    /\ UNCHANGED <<idx, responses, collected, errors, unique, at, ordered, arg, ret, calls>>

Next == Call \/ Fetch \/ Fallback \/ Dedup \/ Sort \/ Return

Spec == Init /\ [][Next]_vars

\* A run under way goes on: events() is straight-line code around a loop
\* over FEEDS, and urlopen gives up after timeout_seconds.
RunStep == Fetch \/ Fallback \/ Dedup \/ Sort \/ Return

FairSpec == Spec /\ WF_vars(RunStep)

-----------------------------------------------------------------------------
(* The run of events() on feeds of about FeedCap items *)

MaxOver == 1

\* The n-th item of a long feed of the i-th source: the items of a feed
\* differ in title and link, the sources in link.
LongItem(i, n) ==
    Item(Some("Event " \o ToStr(n)), Some(FEEDS[i][2] \o "?p=" \o ToStr(n)),
         Some("<p>Details</p>"), None)

LongFeed(i, n) == [k \in 1..n |-> LongItem(i, k)]

\* Well-formed feeds of one item less than the cap, of as many, and of more.
LongAnswers(i) == {Returned(LongFeed(i, n)) : n \in (FeedCap - 1)..(FeedCap + MaxOver)}

LongReadFeedOf ==
    [i \in 1..Len(FEEDS) |-> [response \in LongAnswers(i) |-> read_feed(FEEDS[i][1], response)]]

\* One turn of the loop over FEEDS, the source answering with a long feed.
FetchLong ==
    /\ pc = "fetch"
    /\ \E response \in LongAnswers(idx) :
        /\ responses' = Append(responses, response)
        /\ TryReadFeed(FEEDS[idx][1], LongReadFeedOf[idx][response])
    /\ idx' = idx + 1
    /\ UNCHANGED <<unique, at, ordered, arg, ret, calls>>

NextCap == Call \/ FetchLong \/ Fallback \/ Dedup \/ Sort \/ Return

SpecCap == Init /\ [][NextCap]_vars

-----------------------------------------------------------------------------
(* Calls of events() on the one tracker, from several handler threads *)

\* (mutant) collected, errors and unique kept on the shared tracker
\* instance: every call works on the same ones
LocalsOfTracker(t) == 1

\* collected, errors and unique are local variables of events(): each call
\* has its own, in its own frame.
LocalsOf(t) == t

\* What the sources may answer to a handler thread.
ThreadAnswers(i) ==
    IF i = 1 THEN {Raised("URLError", "<urlopen error timed out>"), Returned(<<ItemRaid>>)}
    ELSE IF i = 2 THEN {Returned(<<>>), Returned(<<ItemRaidAgain>>)}
    ELSE {Raised("ParseError", "syntax error: line 1, column 0")}

SingleRunUnchanged ==
    UNCHANGED <<pc, idx, responses, collected, errors, unique, at, ordered, result, arg, ret>>

Running == {t \in Threads : calls[t].pc \notin {"idle", "done"}}

\* do_GET of thread t calls self.tracker.events(): collected = [], errors = []
ThreadCall ==
    /\ \E t \in Threads :
        /\ calls[t].pc \in {"idle", "done"}
        /\ calls' = [calls EXCEPT ![t].pc = "fetch", ![t].idx = 1, ![t].responses = <<>>,
                                  ![t].ordered = <<>>, ![t].result = NoResult,
                                  ![t].met = Running,
                                  ![LocalsOf(t)].collected = <<>>,
                                  ![LocalsOf(t)].errors = <<>>]
    /\ SingleRunUnchanged

\* One turn of the loop over FEEDS in thread t.
ThreadFetch ==
    /\ \E t \in Threads :
        /\ calls[t].pc = "fetch"
        /\ \E response \in ThreadAnswers(calls[t].idx) :
            \E posts \in {ReadFeedOf[calls[t].idx][response]} :
                calls' = [calls EXCEPT
                    ![t].responses = Append(@, response),
                    ![t].result = IF posts.raised /\ ~IsException(posts.cls) THEN posts ELSE @,
                    ![t].pc = IF posts.raised /\ ~IsException(posts.cls) THEN "raised"
                              ELSE IF calls[t].idx = Len(FEEDS) THEN "fallback" ELSE "fetch",
                    ![t].idx = @ + 1,
                    ![LocalsOf(t)].collected = IF posts.raised THEN @ ELSE @ \o posts.val,
                    ![LocalsOf(t)].errors =
                        IF posts.raised /\ IsException(posts.cls)
                        THEN Append(@, FEEDS[calls[t].idx][1] \o ": " \o posts.msg) ELSE @]
    /\ SingleRunUnchanged

\* if not collected: collected = self.fallback_posts(); unique = {}
ThreadFallback ==
    /\ \E t \in Threads :
        /\ calls[t].pc = "fallback"
        /\ \E now \in Clocks :
            calls' = [calls EXCEPT
                ![t].pc = "dedup",
                ![t].at = 1,
                ![LocalsOf(t)].collected = IF @ = <<>> THEN fallback_posts(now) ELSE @,
                ![LocalsOf(t)].unique = <<>>]
    /\ SingleRunUnchanged

\* One turn of `for post in collected: unique[key] = post` in thread t: the
\* loop ends when the list has no item at the index reached.
ThreadDedup ==
    /\ \E t \in Threads :
        /\ calls[t].pc = "dedup"
        /\ \E locals \in {calls[LocalsOf(t)]} :
            calls' = IF calls[t].at > Len(locals.collected)
                     THEN [calls EXCEPT ![t].pc = "sort"]
                     ELSE [calls EXCEPT
                            ![t].at = @ + 1,
                            ![LocalsOf(t)].unique =
                                DictSet(@, DedupKey(locals.collected[calls[t].at]),
                                        locals.collected[calls[t].at])]
    /\ SingleRunUnchanged

ThreadSort ==
    /\ \E t \in Threads :
        /\ calls[t].pc = "sort"
        /\ \E values \in {DictValues(calls[LocalsOf(t)].unique)} :
            \E rank \in {Rank(values)} :
                calls' = [calls EXCEPT ![t].pc = "return", ![t].ordered = SortedBy(values, rank)]
    /\ SingleRunUnchanged

ThreadReturn ==
    /\ \E t \in Threads :
        /\ calls[t].pc = "return"
        /\ \E now \in Clocks, elapsed_ms \in ElapsedValues :
            calls' = [calls EXCEPT
                ![t].pc = "done",
                ![t].result = Returned(
                    [generated_at |-> strftime_minute(now),
                     refresh_note |-> "Auto-refreshes every day and can be manually refreshed anytime.",
                     elapsed_ms   |-> elapsed_ms,
                     errors       |-> calls[LocalsOf(t)].errors,
                     events       |-> calls[t].ordered])]
    /\ SingleRunUnchanged

NextThreads ==
    ThreadCall \/ ThreadFetch \/ ThreadFallback \/ ThreadDedup \/ ThreadSort \/ ThreadReturn

SpecThreads == Init /\ [][NextThreads]_vars

-----------------------------------------------------------------------------
(* The helpers called on their own *)

MaxPad == 6

MaxWords == 2

IdleRun ==
    /\ idx = 1
    /\ responses = <<>>
    /\ collected = <<>>
    /\ errors = <<>>
    /\ unique = <<>>
    /\ at = 1
    /\ ordered = <<>>
    /\ result = NoResult
    /\ ret = NoResult
    /\ calls = NoCalls

RunUnchanged == UNCHANGED <<idx, responses, collected, errors, unique, at, ordered, result, arg, calls>>

\* n times "x"
RECURSIVE Fill(_)
Fill(n) ==
    IF n = 0 THEN "" ELSE IF n = 1 THEN "x" ELSE Fill(n \div 2) \o Fill(n - (n \div 2))

\* Descriptions whose cleaned text is about SummaryCap characters long (and
\* very short ones), with markup and white space around the text.
Descriptions ==
    {None} \cup
    { Some(before \o Fill(n) \o after) :
        before \in {"", " ", "<p>", "a  b "},
        after  \in {"", "\n", "</p>", " <br/> z"},
        n      \in {0, 1} \cup ((SummaryCap - MaxPad)..(SummaryCap + MaxPad)) }

InitSummary == pc = "call" /\ arg \in Descriptions /\ IdleRun

\* summary = ... of _read_feed for one item's description
SummaryCall ==
    /\ pc = "call"
    /\ ret' = Returned(StoredSummary(arg))
    /\ pc' = "returned"
    /\ RunUnchanged

SpecSummary == InitSummary /\ [][SummaryCall]_vars

Words == {"Raid", "egg", "SEASON", "Community Day", "GO Battle", "Showcase", "spotlight",
          "Max monday", "research", "Incense", "braided", "Hour", "Team GO Rocket", "Go"}

RECURSIVE Join(_)
Join(words) ==
    IF words = <<>> THEN ""
    ELSE IF Len(words) = 1 THEN words[1]
    ELSE words[1] \o " " \o Join(Tail(words))

Titles ==
    {"Team GO Rocket Raid Hour announced"} \cup {Join(w) : w \in SeqsUpTo(Words, MaxWords)}

InitCategory == pc = "call" /\ arg \in Titles /\ IdleRun

CategoryCall ==
    /\ pc = "call"
    /\ ret' = Returned(category_for_title(arg))
    /\ pc' = "returned"
    /\ RunUnchanged

SpecCategory == InitCategory /\ [][CategoryCall]_vars

\* pubDate texts: RFC 2822 dates, good and bad, and texts that are no dates
PubDates ==
    {"", "not-a-date", "x", "Raid", "2024-01-02", "02 Oct 2024", "Unknown"} \cup
    { name \o day \o " " \o mon \o " " \o year \o " " \o time \o " " \o zone :
        name \in {"", "Wed, "},
        day  \in {"01", "29", "31", "00"},
        mon  \in {"Jan", "Feb", "DEC", "Foo"},
        year \in {"2024", "2023", "0999", "0069", "9999"},
        time \in {"00:30:00", "23:59:59", "24:00:00"},
        zone \in {"+0000", "-0000", "+0100", "-2359", "+2400"} }

InitDate == pc = "call" /\ arg \in PubDates /\ IdleRun

NormalizeDateCall ==
    /\ pc = "call"
    /\ ret' = normalize_date(arg)
    /\ pc' = "returned"
    /\ RunUnchanged

SpecDate == InitDate /\ [][NormalizeDateCall]_vars

-----------------------------------------------------------------------------
(* Properties of events() *)

Done == pc = "done"

Events == result.val.events

PostFields == {"title", "url", "summary", "source", "published_at", "category"}

EnvelopeFields == {"generated_at", "refresh_note", "elapsed_ms", "errors", "events"}

IsPost(post) == DOMAIN post = PostFields /\ \A f \in PostFields : post[f] \in STRING

WellFormed(envelope) ==
    /\ DOMAIN envelope = EnvelopeFields
    /\ envelope.generated_at \in STRING
    /\ envelope.refresh_note \in STRING
    /\ envelope.elapsed_ms \in Nat
    /\ \A i \in 1..Len(envelope.errors) : envelope.errors[i] \in STRING
    /\ Len(envelope.events) >= 1
    /\ \A k \in 1..Len(envelope.events) : IsPost(envelope.events[k])

Failed == {i \in 1..Len(responses) : responses[i].raised}

\* C1: whatever each source answers (a failed fetch, a timeout, malformed
\* XML, no item, some items), events() raises nothing, a run that started
\* returns, and what it returns is an envelope with exactly the fields
\* generated_at, refresh_note, elapsed_ms, errors (strings) and events (at
\* least one post, each with title, url, summary, source, published_at and
\* category).
C1_AlwaysEnvelope ==
    /\ [](pc # "raised" /\ ~result.raised /\ (Done => WellFormed(result.val)))
    /\ (pc = "fetch") ~> Done

C1_Witness ==
    /\ Done
    /\ responses[1] = Raised("URLError", "<urlopen error timed out>")
    /\ responses[2] = Raised("ParseError", "syntax error: line 1, column 0")
    /\ ~responses[3].raised /\ responses[3].val = <<>>
    /\ WellFormed(result.val)

\* C2: when every source of FEEDS failed, the events returned are exactly
\* one post, of source "System" and category "Status", and errors has one
\* entry per source.
C2_AllFailFallback ==
    (Done /\ Failed = 1..Len(FEEDS)) =>
        /\ Len(Events) = 1
        /\ Events[1].source = "System"
        /\ Events[1].category = "Status"
        /\ Len(result.val.errors) = Len(FEEDS)

C2_Witness ==
    /\ Done
    /\ Failed = 1..Len(FEEDS)
    /\ Events[1].source = "System"

\* The error strings the failed sources among the first n should give, in
\* registry order.
RECURSIVE ErrorsOf(_)
ErrorsOf(n) ==
    IF n = 0 THEN <<>>
    ELSE IF responses[n].raised
         THEN Append(ErrorsOf(n - 1), FEEDS[n][1] \o ": " \o responses[n].msg)
         ELSE ErrorsOf(n - 1)

\* The posts parsed from the sources that did not fail.
ParsedPosts ==
    {ReadFeedOf[i][responses[i]].val[j] :
        <<i, j>> \in {<<i, j>> \in (1..Len(responses)) \X (1..MaxItems) :
                        ~responses[i].raised /\ j <= Len(responses[i].val)}}

\* C3: whichever sources fail, errors has one entry per failed source, of
\* the form "{source}: {error}", in registry order, and every post parsed
\* from a source that did not fail is among the events when the dedup keys
\* of the posts parsed are pairwise distinct.
C3_ErrorsPerFailedSource ==
    Done =>
        /\ result.val.errors = ErrorsOf(Len(FEEDS))
        /\ Len(result.val.errors) = Cardinality(Failed)
        /\ (\A a, b \in 1..Len(collected) : a # b => DedupKey(collected[a]) # DedupKey(collected[b]))
            => \A post \in ParsedPosts : \E k \in 1..Len(Events) : Events[k] = post

\* one source gives two items, one times out (and one gives no item): one
\* error naming the source that timed out, two events
C3_Witness ==
    /\ Done
    /\ responses[1] = Returned(<<ItemRaid, ItemBarA>>)
    /\ responses[2] = Raised("URLError", "<urlopen error timed out>")
    /\ responses[3] = Returned(<<>>)
    /\ result.val.errors = <<"Pokemon GO Live (EN): <urlopen error timed out>">>
    /\ Len(Events) = 2

SameTitleAndUrl(p, q) == p.title = q.title /\ p.url = q.url

\* C4: no two of the events returned have the same title and the same url:
\* the posts collected that share a title and a url give exactly one entry,
\* the one of their dedup key.
C4_NoDuplicateTitleUrl ==
    Done =>
        /\ \A a, b \in 1..Len(Events) : SameTitleAndUrl(Events[a], Events[b]) => a = b
        /\ \A i \in 1..Len(collected) :
            Cardinality({k \in 1..Len(Events) : DedupKey(Events[k]) = DedupKey(collected[i])}) = 1

\* the same post three times, twice in one feed and once in another
C4_Witness ==
    /\ Done
    /\ responses[1] = Returned(<<ItemRaid, ItemRaid>>)
    /\ responses[2] = Returned(<<ItemRaidAgain>>)
    /\ Len(collected) >= 3
    /\ Cardinality({k \in 1..Len(Events) : Events[k].title = "Raid Hour"}) = 1

\* C5: every post of the events returned has a title that is not empty and
\* a source that is not empty, whatever the items hold (a title missing,
\* empty or of white space only).
C5_TitleAndSourceNonEmpty ==
    Done => \A k \in 1..Len(Events) : Events[k].title # "" /\ Events[k].source # ""

Descending(posts) ==
    \A k \in 1..(Len(posts) - 1) : ~StrLess(posts[k].published_at, posts[k + 1].published_at)

\* C6: the events returned are in descending order of published_at as
\* strings: each entry's published_at is not smaller, by code points, than
\* the next entry's; "Unknown" and dates kept as they came are compared as
\* any other string.
C6_SortedByPublishedAtDescending == Done => Descending(Events)

\* the sort moved something, and dates of the three kinds are compared
C6_Witness ==
    /\ Done
    /\ ~Descending(collected)
    /\ \E k \in 1..Len(Events) : Events[k].published_at = "Unknown"
    /\ \E k \in 1..Len(Events) : Events[k].published_at = "not-a-date"
    /\ \E k \in 1..Len(Events) : Events[k].published_at = "2024-10-02 10:00 UTC"
    /\ Len(Events) >= 4

\* YYYY-MM-DD HH:MM UTC
IsCanonical(p) ==
    /\ Len(p) = 20
    /\ AllDigits(SubSeq(p, 1, 4)) /\ Char(p, 5) = "-"
    /\ AllDigits(SubSeq(p, 6, 7)) /\ Char(p, 8) = "-"
    /\ AllDigits(SubSeq(p, 9, 10)) /\ Char(p, 11) = " "
    /\ AllDigits(SubSeq(p, 12, 13)) /\ Char(p, 14) = ":"
    /\ AllDigits(SubSeq(p, 15, 16))
    /\ SubSeq(p, 17, 20) = " UTC"

\* C10 as claimed: every post of the events returned has a published_at
\* that is of the form YYYY-MM-DD HH:MM UTC or is "Unknown".
C10_CanonicalOrUnknown ==
    Done => \A k \in 1..Len(Events) :
        IsCanonical(Events[k].published_at) \/ Events[k].published_at = "Unknown"

\* The pubDate texts of the items answered, stripped.
PubDatesAnswered ==
    {Strip(OrElse(responses[i].val[j].pubDate, "")) :
        <<i, j>> \in {<<i, j>> \in (1..Len(responses)) \X (1..MaxItems) :
                        ~responses[i].raised /\ j <= Len(responses[i].val)}}

\* C10 as amended: every post of the events returned has a published_at
\* that is of the form YYYY-MM-DD HH:MM UTC, or is "Unknown", or is the
\* stripped pubDate of an item, not empty, whose parsing or conversion to
\* UTC raises.
C10_CanonicalUnknownOrRaw ==
    Done => \A k \in 1..Len(Events) :
        \/ IsCanonical(Events[k].published_at)
        \/ Events[k].published_at = "Unknown"
        \/ /\ Events[k].published_at \in PubDatesAnswered
           /\ Events[k].published_at # ""
           /\ NormalizeTry(Events[k].published_at).raised

C10_Witness ==
    /\ Done
    /\ \E i \in 1..Len(responses) :
        ~responses[i].raised /\ \E j \in 1..Len(responses[i].val) : responses[i].val[j] = ItemBlank
    /\ \E k \in 1..Len(Events) : Events[k].published_at = "not-a-date"

-----------------------------------------------------------------------------
(* Properties of the helpers *)

Returns == pc = "returned"

\* C7: when the cleaned description is longer than 230 characters the
\* summary stored is its first 230 characters and the ellipsis, 231
\* characters in all; when it has 1 to 230 characters the summary stored is
\* the cleaned text itself.
C7_SummaryCap ==
    Returns =>
        /\ ~ret.raised
        /\ Len(clean_html(arg)) > 230 =>
            /\ Len(ret.val) = 231
            /\ SubSeq(ret.val, 1, 230) = SubSeq(clean_html(arg), 1, 230)
            /\ Char(ret.val, 231) = Ellipsis
        /\ Len(clean_html(arg)) \in 1..230 => ret.val = clean_html(arg)

\* a cleaned text of 231 characters, markup and white space removed, is cut
C7_Witness ==
    /\ Returns
    /\ arg = Some("a  b " \o Fill(227) \o "</p>")
    /\ clean_html(arg) = "a b " \o Fill(227)
    /\ ret.val = "a b " \o Fill(226) \o Ellipsis

\* The keywords in the order the claim gives.
KeywordOrder == <<"Raid", "Spotlight", "Community Day", "Max Monday", "Research",
                  "GO Battle", "Season", "Showcase", "Incense", "Egg">>

\* The category EVENT_KEYWORDS gives a keyword.
CategoryOf(keyword) ==
    EVENT_KEYWORDS[CHOOSE i \in 1..Len(EVENT_KEYWORDS) : EVENT_KEYWORDS[i][1] = keyword][2]

\* The keywords of KeywordOrder found in the title, whatever the case.
Found(title) ==
    {i \in 1..Len(KeywordOrder) : Contains(Lower(title), Lower(KeywordOrder[i]))}

\* C8: _category_for_title gives the category of the first keyword, in the
\* order Raid, Spotlight, Community Day, Max Monday, Research, GO Battle,
\* Season, Showcase, Incense, Egg, that is in the title whatever the case,
\* and "News" when none is: wherever the keywords stand in the title.
C8_FirstKeywordInOrder ==
    Returns =>
        /\ ~ret.raised
        /\ ret.val = IF Found(arg) = {} THEN "News"
                     ELSE CategoryOf(KeywordOrder[Lowest(Found(arg))])
        /\ arg = "Team GO Rocket Raid Hour announced" => ret.val = "Raid"

\* two keywords, the one later in the order standing first in the title and
\* in another case
C8_Witness ==
    /\ Returns
    /\ arg = "egg Raid"
    /\ Found(arg) = {1, 10}
    /\ ret.val = "Raid"

\* C9: _normalize_date never raises; it gives "Unknown" for the empty
\* string, and a string that is not empty and does not parse as a date comes
\* back unchanged.
C9_NormalizeDateFailsSoft ==
    Returns =>
        /\ ~ret.raised
        /\ arg = "" => ret.val = "Unknown"
        /\ (arg # "" /\ parsedate_to_datetime(arg).raised) => ret.val = arg

C9_Witness ==
    /\ Returns
    /\ arg = "not-a-date"
    /\ parsedate_to_datetime(arg).raised
    /\ ret.val = "not-a-date"

-----------------------------------------------------------------------------
(* The loop over FEEDS *)

\* A step that fetches a source: responses gets the answer of one more fetch.
Fetches == Len(responses') > Len(responses)

\* What the fetch of the source of index idx, answered by response, adds.
Contribution(response) ==
    IF response.raised
    THEN /\ errors' = Append(errors, FEEDS[idx][1] \o ": " \o response.msg)
         /\ collected' = collected
    ELSE /\ errors' = errors
         /\ collected' = collected \o ReadFeedOf[idx][response].val
         /\ Len(ReadFeedOf[idx][response].val) = Len(response.val)

\* C11: in a run of events() the sources of FEEDS are fetched once each, in
\* registry order: the n-th fetch of the run is of the n-th source, whatever
\* the fetches before it gave, the loop ends after the last source, and a run
\* past the loop has fetched each source exactly once.  A fetch that fails
\* adds one error string and no post; a fetch that succeeds adds the posts
\* of its items and no error.
C11_EachSourceOnceInOrder ==
    /\ [](/\ pc = "fetch" => Len(responses) = idx - 1 /\ idx <= Len(FEEDS)
          /\ pc \in {"fallback", "dedup", "sort", "return", "done"} =>
                Len(responses) = Len(FEEDS))
    /\ [][Fetches =>
            /\ pc = "fetch"
            /\ Len(responses') = idx
            /\ SubSeq(responses', 1, idx - 1) = responses
            /\ responses'[idx] \in Answers(idx)
            /\ idx' = idx + 1
            /\ pc' = IF idx = Len(FEEDS) THEN "fallback" ELSE "fetch"
            /\ Contribution(responses'[idx])]_vars
    /\ [][pc = "fetch" => Fetches]_vars

\* the first source fails, the second one is fetched all the same and gives
\* its two posts, the third fails
C11_Witness ==
    /\ pc = "fallback"
    /\ responses[1] = Raised("HTTPError", "HTTP Error 404: Not Found")
    /\ responses[2] = Returned(<<ItemRaidAgain, ItemBarB>>)
    /\ responses[3] = Raised("URLError", "<urlopen error timed out>")
    /\ Len(errors) = 2
    /\ Len(collected) = 2

-----------------------------------------------------------------------------
(* The cap on the items of a feed *)

\* The posts of the first FeedCap items of the feed the i-th source gave,
\* item by item, in document order.
PostsOfFirstItems(i) ==
    [j \in 1..Min(Len(responses[i].val), FeedCap) |->
        ParseItem(FEEDS[i][1], responses[i].val[j]).val]

RECURSIVE PostsOfSources(_)
PostsOfSources(n) ==
    IF n = 0 THEN <<>> ELSE PostsOfSources(n - 1) \o PostsOfFirstItems(n)

\* The feed without the items after the first FeedCap.
CutAtCap(response) == Returned(Prefix(response.val, FeedCap))

\* C12: of a well-formed feed _read_feed returns at most FeedCap posts, the
\* posts of the first min(n, FeedCap) items, one per item and in document
\* order; it returns the same for the feed without its items after the
\* FeedCap-th; and events() returns at most FeedCap * |FEEDS| events.
C12_FirstItemsOnly ==
    /\ \A i \in 1..Len(responses) :
            /\ ~LongReadFeedOf[i][responses[i]].raised
            /\ Len(LongReadFeedOf[i][responses[i]].val) = Min(Len(responses[i].val), FeedCap)
    /\ pc = "fallback" =>
            /\ collected = PostsOfSources(Len(FEEDS))
            /\ \A i \in 1..Len(FEEDS) :
                    LongReadFeedOf[i][responses[i]] = read_feed(FEEDS[i][1], CutAtCap(responses[i]))
    /\ Len(collected) <= FeedCap * Len(FEEDS)
    /\ Done => Len(Events) <= FeedCap * Len(FEEDS)

\* every source gives one item more than the cap: three times FeedCap events
C12_Witness ==
    /\ Done
    /\ \A i \in 1..Len(FEEDS) : Len(responses[i].val) = FeedCap + 1
    /\ Len(Events) = FeedCap * Len(FEEDS)
    /\ \A k \in 1..Len(Events) : Events[k].title # "Event 26"

-----------------------------------------------------------------------------
(* Concurrent calls of events() *)

\* What a run of events() alone gives for the answers resp of the sources:
\* its errors, its posts, and its events when the clock reads now.
RECURSIVE ErrorsFor(_, _)
ErrorsFor(resp, n) ==
    IF n = 0 THEN <<>>
    ELSE IF resp[n].raised
         THEN Append(ErrorsFor(resp, n - 1), FEEDS[n][1] \o ": " \o resp[n].msg)
         ELSE ErrorsFor(resp, n - 1)

RECURSIVE PostsFor(_, _)
PostsFor(resp, n) ==
    IF n = 0 THEN <<>>
    ELSE IF resp[n].raised THEN PostsFor(resp, n - 1)
         ELSE PostsFor(resp, n - 1) \o read_feed(FEEDS[n][1], resp[n]).val

RECURSIVE DedupOf(_, _)
DedupOf(posts, n) ==
    IF n = 0 THEN <<>>
    ELSE DictSet(DedupOf(posts, n - 1), DedupKey(posts[n]), posts[n])

OrFallback(posts, now) == IF posts = <<>> THEN fallback_posts(now) ELSE posts

EventsOf(posts) == SortedDescending(DictValues(DedupOf(posts, Len(posts))))

EventsFor(resp, now) == EventsOf(OrFallback(PostsFor(resp, Len(resp)), now))

\* The call of thread t has what a run alone has at the same place.
AsAlone(t) ==
    /\ calls[t].pc \in {"fetch", "fallback"} =>
            /\ calls[LocalsOf(t)].collected = PostsFor(calls[t].responses, Len(calls[t].responses))
            /\ calls[LocalsOf(t)].errors = ErrorsFor(calls[t].responses, Len(calls[t].responses))
    /\ calls[t].pc = "done" =>
            /\ ~calls[t].result.raised
            /\ calls[t].result.val.errors = ErrorsFor(calls[t].responses, Len(FEEDS))
            /\ \E now \in Clocks :
                    calls[t].result.val.events = EventsFor(calls[t].responses, now)

\* C13: under every interleaving of the calls of events() that the handler
\* threads make on the one tracker, each call returns the errors and the
\* events a run alone returns for the answers its own fetches got, a call
\* that starts has nothing of the calls before it, and a step of one call
\* changes nothing of another call.
C13_CallsIsolated ==
    /\ [](\A t \in Threads : AsAlone(t))
    /\ [][\A t, u \in Threads :
            (u # t /\ calls'[t] # calls[t]) => calls'[u] = calls[u]]_vars

\* a call that started while another was under way: the one returns the
\* Raid Hour post and one error, the other the fallback post and two errors
C13_Witness ==
    /\ calls[1].pc = "done"
    /\ calls[2].pc = "done"
    /\ calls[2].met = {1}
    /\ calls[1].responses[1] = Returned(<<ItemRaid>>)
    /\ Len(calls[1].result.val.errors) = 1
    /\ calls[1].result.val.events[1].title = "Raid Hour"
    /\ calls[2].responses[1].raised /\ calls[2].responses[2] = Returned(<<>>)
    /\ Len(calls[2].result.val.errors) = 2
    /\ calls[2].result.val.events[1].source = "System"

-----------------------------------------------------------------------------
(* Deduplication *)

\* The index in collected of the last post with the title and url of
\* collected[i].
LastLike(i) ==
    CHOOSE j \in 1..Len(collected) :
        /\ SameTitleAndUrl(collected[j], collected[i])
        /\ \A m \in (j + 1)..Len(collected) : ~SameTitleAndUrl(collected[m], collected[i])

\* C14: when several of the posts collected have the same title and the
\* same url, the events returned have exactly one entry for their key, and
\* it is the last of these posts in the order of collected (summary, source,
\* published_at and category included).
C14_LastWriteWins ==
    Done =>
        \A i \in 1..Len(collected) :
            (\E j \in 1..Len(collected) : j # i /\ SameTitleAndUrl(collected[j], collected[i]))
            =>  /\ Cardinality({k \in 1..Len(Events) :
                                    DedupKey(Events[k]) = DedupKey(collected[i])}) = 1
                /\ \A k \in 1..Len(Events) :
                        DedupKey(Events[k]) = DedupKey(collected[i])
                        => Events[k] = collected[LastLike(i)]

\* The (title, url) pairs of the posts collected.
TitleUrlPairs == {<<collected[i].title, collected[i].url>> : i \in 1..Len(collected)}

\* C15: the events returned are as many as the distinct (title, url) pairs
\* of the posts collected, "|" in a title or a url included: posts that
\* differ in title or in url are never collapsed.
C15_OneEntryPerTitleUrlPair ==
    Done => Len(Events) = Cardinality(TitleUrlPairs)

====
